---------------------------- MODULE Spec2Model ----------------------------
(***************************************************************************)
(* Model of src/faceit-scraper.js.  The file holds two variants of the     *)
(* same script:                                                            *)
(*   "immediate" (lines 1-443)   every new bot is appended to the sheet    *)
(*                               as soon as it is found;                   *)
(*   "buffered"  (lines 445-811) all bots are collected, de-duplicated     *)
(*                               with a Map and written in batches.        *)
(* A run is main(): authenticate, initialise the sheet, then for every     *)
(* (basePattern, numberRange) page through the search service.  Every      *)
(* action below is the code between two awaits: one external call, the     *)
(* answer the service gives (chosen with \E) and the handling of it.       *)
(*                                                                         *)
(* Strings the code inspects character by character (nicknames, base       *)
(* patterns, error messages) are sequences of one-character strings.       *)
(***************************************************************************)
EXTENDS Integers, Sequences, FiniteSets, TLC

VARIABLES
  variant,            \* which of the two scripts runs
  pc,                 \* position of main()
  outcome,            \* state of the promise returned by main()
  exitCode,           \* exit status of the process, -1 while it runs
  caught,             \* the error main's catch block received, or NoError
  \* ---- main / processValidBotsForPattern / getAllValidBotsForPattern
  patIdx, rangeIdx,   \* position in BASE_PATTERNS and in numberRanges
  offset, hasMore,
  pageLen,            \* result.items.length of the page being processed
  pending,            \* newValidBots not yet saved (immediate)
  validBotsCount,     \* (immediate)
  validBots,          \* (buffered)
  processedUserIds, totalAccountsSaved, totalAccountsFound,   \* (immediate)
  allValidBots,       \* (buffered)
  currentSheet, sheetIndex,
  batches, batchIdx, totalProcessed,                          \* (buffered)
  \* ---- the two external services
  sheets,             \* the spreadsheet: sheet title -> rows of columns A:B
  eventsLeft,         \* what the two services may still do, see MaxEvents
  \* ---- history of the run
  nCalls,             \* external calls issued so far
  nSearch,            \* search calls issued so far
  allSearchFailed,    \* every search call so far has failed
  fatalEvent,         \* a failure the design calls fatal has happened
  searchOffsets,      \* offsets of the search calls of the current query
  pageSizes,          \* item counts the current query's calls returned
  firstSeen,          \* the first valid result of each account, in order
  appended,           \* rows appended with success, in order
  reqCalls,           \* spreadsheet calls of the current append request
  reqRows,            \* rows of the current append request
  reqPre,             \* the spreadsheet when the request began
  reqIndex,           \* sheetIndex when the request began
  initialized,        \* calls of initializeSpreadsheet that have returned
  searchOk,           \* for each search call of the current query: no failure
  returned,           \* candidates the search service has returned, each
                      \* with the base pattern of its query
  delayed,            \* a timer has run out since the last search call
  \* ---- NicknameValidator exercised on its own
  vNickname, vBasePattern, vResult

progVars == <<variant, pc, outcome, exitCode, caught, patIdx, rangeIdx, offset,
              hasMore, pageLen, pending, validBotsCount, validBots,
              processedUserIds, totalAccountsSaved, totalAccountsFound,
              allValidBots, currentSheet, sheetIndex, batches, batchIdx,
              totalProcessed>>
envVars == <<sheets, eventsLeft>>
histVars == <<nCalls, nSearch, allSearchFailed, fatalEvent, searchOffsets,
              pageSizes, firstSeen, appended, reqCalls, reqRows, reqPre,
              reqIndex, initialized, searchOk, returned, delayed>>
valVars == <<vNickname, vBasePattern, vResult>>
vars == <<progVars, envVars, histVars, valVars>>

----------------------------------------------------------------------------
(* Bounds of the model *)

MaxPatterns == 2      \* base patterns searched (a prefix of BASE_PATTERNS)
RangeMax == 20        \* upper end of the numeric ranges (400 in the code)
MaxEvents == 3        \* in a run: candidates the search service returns, plus
                      \* pages of exactly `limit` items, plus spreadsheet
                      \* calls that fail after the initialisation
BATCH_SIZE == 1       \* rows per batch (1000 in the code)
MaxNickLen == 5       \* nickname length in the validator's own check
MaxPatLen == 2        \* base pattern length in the validator's own check
MaxInitCalls == 2     \* calls of initializeSpreadsheet on one spreadsheet

----------------------------------------------------------------------------
(* Strings *)

\* String.prototype.startsWith
startsWith(s, p) == Len(p) <= Len(s) /\ SubSeq(s, 1, Len(p)) = p

\* String.prototype.substring(start), start counted from 0
substring(s, start) == SubSeq(s, start + 1, Len(s))

\* String.prototype.includes
includes(s, sub) ==
  \E i \in 0..(Len(s) - Len(sub)) : SubSeq(s, i + 1, i + Len(sub)) = sub

\* \d of a JavaScript regular expression without the u flag: [0-9]
IsDigit(c) == c \in {"0", "1", "2", "3", "4", "5", "6", "7", "8", "9"}

\* one or more digits from position i to the end of s ( \d+$ )
RECURSIVE DigitsToEnd(_, _)
DigitsToEnd(s, i) ==
  IF i > Len(s) THEN FALSE
  ELSE IF ~IsDigit(s[i]) THEN FALSE
  ELSE IF i = Len(s) THEN TRUE
  ELSE DigitsToEnd(s, i + 1)

\* a mutant of validFormatTest: the regular expression without its $ anchor
validFormatTest_noEnd(s) == Len(s) >= 2 /\ s[1] = "_" /\ IsDigit(s[2])

\* /^_\d+$/.test(s)
validFormatTest(s) == Len(s) >= 1 /\ s[1] = "_" /\ DigitsToEnd(s, 2)

isValidBotNickname(nickname, basePattern) ==
  IF ~startsWith(nickname, basePattern) THEN FALSE
  ELSE LET remainingPart == substring(nickname, Len(basePattern))
       IN  validFormatTest(remainingPart)

----------------------------------------------------------------------------
(* Configuration *)

SHEET_NAME == IF variant = "immediate" THEN "SHADI" ELSE "BotAccounts"

BASE_PATTERNS_IMMEDIATE ==
  << <<"-","-","-","p","r","0","E","L","O">>,
     <<"-","-","-","B","0","0","S","T","_">>,
     <<"-","-","-","E","E","E","L","O","_">>,
     <<"-","-","-","t","y","t","E","L","O","_">>,
     <<"-","-","-","E","L","O","-","E","Z","_">>,
     <<"-","-","-","E","Z","-","E","L","O","_">>,
     <<"-","-","B","o","o","s","t","K","D","_">>,
     <<"-","-","E","L","O","s","h","0","p","_">>,
     <<"-","-","-","f","o","r","E","L","O">> >>

BASE_PATTERNS_BUFFERED ==
  << <<"-","-","-","T","A","K","E">>,
     <<"-","-","-","h","i","E","L","O">>,
     <<"-","-","-","M","y","E","L","O">>,
     <<"-","-","-","g","g","E","L","O">>,
     <<"-","-","-","E","L","O","b","s","t">>,
     <<"-","-","-","E","L","O","g","0","d">>,
     <<"-","-","-","G","O","T","I","t">>,
     <<"-","-","-","t","o","p","E","L","O">>,
     <<"-","-","-","T","a","k","e","I","t">>,
     <<"-","-","-","E","L","O","i","z","i">>,
     <<"-","-","-","o","E","L","O">>,
     <<"-","-","-","y","o","u","E","L","O">>,
     <<"-","-","-","E","L","O","O","O">>,
     <<"-","-","-","U","p","-","E","L","O">>,
     <<"-","-","-","T","a","k","e","I","t">> >>

Min(a, b) == IF a <= b THEN a ELSE b

\* the patterns a run of the model searches: the first MaxPatterns of the list
BASE_PATTERNS ==
  LET all == IF variant = "immediate" THEN BASE_PATTERNS_IMMEDIATE
             ELSE BASE_PATTERNS_BUFFERED
  IN  SubSeq(all, 1, Min(MaxPatterns, Len(all)))

\* for (let i = 1; i <= max; i += 20) numberRanges.push(`${i}-${rangeEnd}`)
RECURSIVE NumericRanges(_, _)
NumericRanges(i, max) ==
  IF i > max THEN <<>>
  ELSE LET rangeEnd == Min(i + 19, max)
       IN  <<<<i, "-", rangeEnd>>>> \o NumericRanges(i + 20, max)

\* a mutant of NumberRangesUpTo: the wildcard is left out
NumberRangesUpTo_noWildcard(max) == <<<<>>>> \o NumericRanges(1, max)

\* numberRanges of main for an upper end max: '', '*', then the numeric spans
NumberRangesUpTo(max) == <<<<>>, <<"*">>>> \o NumericRanges(1, max)

numberRanges == NumberRangesUpTo(RangeMax)

limit == 100

HEADER == <<"User ID", <<"N","i","c","k","n","a","m","e">>>>

\* a mutant of SheetTitle: the title is built before sheetIndex is incremented
SheetTitle_before(index) == <<SHEET_NAME, "_", index - 1>>

\* a mutant of SheetTitle: the index follows the base name at once
SheetTitle_noSeparator(index) == <<SHEET_NAME, index>>

\* `${SHEET_NAME}_${sheetIndex}`
SheetTitle(index) == <<SHEET_NAME, "_", index>>

\* let currentSheet = SHEET_NAME
BaseSheet == <<SHEET_NAME>>


----------------------------------------------------------------------------
(* Errors of the external services.  The state holds an error's name; its  *)
(* message (abbreviated from what the services answer) is looked up.       *)

NoError == "none"
OK == "OK"

ErrorMessage(e) ==
  CASE e = "ERR_GRID" ->
         <<"e","x","c","e","e","d","s"," ","g","r","i","d"," ","l","i","m","i","t","s">>
    [] e = "ERR_PERMISSION" ->
         <<"T","h","e"," ","c","a","l","l","e","r"," ","d","o","e","s"," ","n","o","t"," ","h","a","v","e"," ","p","e","r","m","i","s","s","i","o","n">>
    [] e = "ERR_QUOTA" ->
         <<"Q","u","o","t","a"," ","e","x","c","e","e","d","e","d"," ","f","o","r"," ","l","i","m","i","t"," ","'","W","r","i","t","e"," ","r","e","q","u","e","s","t","s"," ","p","e","r"," ","m","i","n","u","t","e","'">>
    [] e = "ERR_PARSE" ->
         <<"U","n","a","b","l","e"," ","t","o"," ","p","a","r","s","e"," ","r","a","n","g","e">>
    [] e = "ERR_EXISTS" ->
         <<"A"," ","s","h","e","e","t"," ","w","i","t","h"," ","t","h","a","t"," ","n","a","m","e"," ","a","l","r","e","a","d","y"," ","e","x","i","s","t","s">>
    [] e = "ERR_AUTH" ->
         <<"i","n","v","a","l","i","d","_","g","r","a","n","t">>
    [] OTHER ->
         <<"s","o","c","k","e","t"," ","h","a","n","g"," ","u","p">>

\* the service refused the append because the sheet is full
IsCapacity(e) == e = "ERR_GRID"

\* a mutant of IsLimitError: only the two capacity phrases are looked for
IsLimitError_strict(message) ==
  \/ includes(message, <<"e","x","c","e","e","d","s"," ","t","h","e"," ","l","i","m","i","t">>)
  \/ includes(message, <<"e","x","c","e","e","d","s"," ","g","r","i","d"," ","l","i","m","i","t","s">>)

\* a mutant of IsLimitError: no error is answered by a rollover
IsLimitError_never(message) == FALSE

\* the condition of the catch blocks of the append
IsLimitError(message) ==
  \/ includes(message, <<"e","x","c","e","e","d","s"," ","t","h","e"," ","l","i","m","i","t">>)
  \/ includes(message, <<"e","x","c","e","e","d","s"," ","g","r","i","d"," ","l","i","m","i","t","s">>)
  \/ includes(message, <<"r","a","n","g","e">>)
  \/ includes(message, <<"l","i","m","i","t">>)

----------------------------------------------------------------------------
(* The spreadsheet service: what each call may answer, and what it does.   *)
(* A call that fails changes nothing.                                      *)

AppendErrors == {"ERR_GRID", "ERR_PERMISSION", "ERR_QUOTA", "ERR_PARSE"}

\* what the append to a sheet just created may fail with
RetryErrors == {"ERR_GRID", "ERR_PERMISSION"}

\* answers to a call that may fail for a reason of the service's own
Injected(errs) == IF eventsLeft > 0 THEN errs ELSE {}

\* spreadsheets.get({ranges: [title]})
GetAnswers(title) ==
  IF title \in DOMAIN sheets THEN {OK, "ERR_NETWORK"} ELSE {"ERR_PARSE"}

\* spreadsheets.values.clear
ClearAnswers == {OK, "ERR_NETWORK"}

\* spreadsheets.batchUpdate({addSheet}) : a title can be taken only once
AddSheetAnswers(title, errs) ==
  IF title \in DOMAIN sheets THEN {"ERR_EXISTS"} ELSE {OK} \cup errs

\* a mutant of Cleared: the clear leaves the rows where they are
Cleared_nothing(title) == sheets

Cleared(title) == [sheets EXCEPT ![title] = <<>>]

SheetAdded(title) ==
  [t \in DOMAIN sheets \cup {title} |->
     IF t \in DOMAIN sheets THEN sheets[t] ELSE <<>>]

\* spreadsheets.values.update of A1:B1
HeaderWritten(title) ==
  [sheets EXCEPT ![title] =
     IF @ = <<>> THEN <<HEADER>> ELSE [@ EXCEPT ![1] = HEADER]]

\* spreadsheets.values.append to A:B : below the last row
RowsAppended(title, rows) == [sheets EXCEPT ![title] = @ \o rows]

Call(op, title, answer) == [op |-> op, sheet |-> title, answer |-> answer]

----------------------------------------------------------------------------
(* The search service.  A page is [count, items]: count is the number of   *)
(* items of the page (result.items.length), items are the candidates of    *)
(* the page the model follows one by one; the other count - Len(items)     *)
(* items are fuzzy matches whose nicknames fail isValidBotNickname.        *)

\* candidates the service may return for a query on base pattern p: player
\* u1 under two nicknames of the bot format and under a fuzzy match, and
\* player u2
Candidates(p) ==
  { [player_id |-> "u1", nickname |-> p \o <<"_", "7">>],
    [player_id |-> "u1", nickname |-> p \o <<"_", "4", "2">>],
    [player_id |-> "u1", nickname |-> p \o <<"_", "4", "2", "x">>],
    [player_id |-> "u2", nickname |-> p \o <<"_", "7">>] }

RECURSIVE SeqsUpTo(_, _)
SeqsUpTo(S, n) ==
  IF n = 0 THEN {<<>>}
  ELSE LET shorter == SeqsUpTo(S, n - 1)
       IN  shorter \cup { Append(s, x) : s \in { t \in shorter : Len(t) = n - 1 }, x \in S }

Pages(p) ==
  UNION { { [count |-> c, items |-> its] :
              c \in {Len(its)} \cup (IF Len(its) < eventsLeft THEN {limit} ELSE {}) } :
          its \in SeqsUpTo(Candidates(p), eventsLeft) }

\* what a page takes from MaxEvents
PageCost(page) == Len(page.items) + (IF page.count = limit THEN 1 ELSE 0)

\* a mutant of SearchResponses: the request never settles
SearchResponses_none(p) == {}

\* answers of faceitClient.get('/search/players')
SearchResponses(p) ==
  {[ok |-> FALSE, error |-> "ERR_NETWORK"]}
    \cup {[ok |-> TRUE, data |-> page] : page \in Pages(p)}

\* a mutant of EmptyResult: a failed call looks like a page of `limit` items
EmptyResult_full == [count |-> limit, items |-> <<>>]

EmptyResult == [count |-> 0, items |-> <<>>]

\* a mutant of searchUsers: no try/catch around the request
searchUsers_uncaught(response) ==
  IF response.ok THEN [threw |-> FALSE, value |-> response.data]
  ELSE [threw |-> TRUE, error |-> response.error]

\* searchUsers, given the answer of the service: what it returns or throws
searchUsers(response) ==
  IF response.ok THEN [threw |-> FALSE, value |-> response.data]
  ELSE [threw |-> FALSE, value |-> EmptyResult]


----------------------------------------------------------------------------
(* Groups of variables an action leaves alone *)

ctlVars == <<pc, outcome, exitCode, caught>>
queryVars == <<patIdx, rangeIdx, offset, hasMore, validBotsCount, validBots>>
pageVars == <<pageLen, pending>>
foundVars == <<processedUserIds, totalAccountsSaved, totalAccountsFound,
               allValidBots>>
cursorVars == <<currentSheet, sheetIndex>>
batchVars == <<batches, batchIdx, totalProcessed>>
searchHist == <<nSearch, allSearchFailed, firstSeen, returned>>
queryHist == <<searchOffsets, pageSizes, searchOk>>
reqHist == <<reqCalls, reqRows, reqPre, reqIndex>>

----------------------------------------------------------------------------
(* The state after the module is loaded *)

STALE_ROW == <<"u0", <<"o","l","d">>>>

\* what the spreadsheet may hold before the run: nothing of ours; a base
\* sheet that is empty, holds the header only, the header and a row of an
\* earlier run, or a row and no header; or the base sheet and the first
\* overflow sheet of an earlier run
InitialSpreadsheets ==
  { <<>>,
    [t \in {BaseSheet} |-> <<>>],
    [t \in {BaseSheet} |-> <<HEADER>>],
    [t \in {BaseSheet} |-> <<HEADER, STALE_ROW>>],
    [t \in {BaseSheet} |-> <<STALE_ROW>>],
    [t \in {BaseSheet, SheetTitle(2)} |-> <<HEADER, STALE_ROW>>] }

\* the validator's own check is not part of a run
ValidatorIdle ==
  /\ vNickname = <<>>
  /\ vBasePattern = <<>>
  /\ vResult = <<>>

Init ==
  /\ variant \in {"immediate", "buffered"}
  /\ pc = "auth"
  /\ outcome = "pending"
  /\ exitCode = -1
  /\ caught = NoError
  /\ patIdx = 1 /\ rangeIdx = 1
  /\ offset = 0 /\ hasMore = TRUE
  /\ pageLen = 0 /\ pending = <<>>
  /\ validBotsCount = 0 /\ validBots = <<>>
  /\ processedUserIds = {}
  /\ totalAccountsSaved = 0 /\ totalAccountsFound = 0
  /\ allValidBots = <<>>
  /\ currentSheet = BaseSheet /\ sheetIndex = 1
  /\ batches = <<>> /\ batchIdx = 0 /\ totalProcessed = 0
  /\ sheets \in InitialSpreadsheets
  /\ eventsLeft = MaxEvents
  /\ nCalls = 0 /\ nSearch = 0
  /\ allSearchFailed = TRUE /\ fatalEvent = FALSE
  /\ searchOffsets = <<>> /\ pageSizes = <<>>
  /\ firstSeen = <<>> /\ appended = <<>>
  /\ reqCalls = <<>> /\ reqRows = <<>> /\ reqPre = <<>> /\ reqIndex = 1
  /\ initialized = 0 /\ searchOk = <<>> /\ returned = {} /\ delayed = FALSE
  /\ ValidatorIdle

----------------------------------------------------------------------------
(* main: how it ends *)

\* the catch block of main logs the error and returns
MainCatch == "fulfilled"

\* main().then(...).catch(...): both handlers log, neither sets a status, and
\* with nothing left to await the process exits
ExitStatus(settled) == 0

\* main settles, its handlers run and the process exits
Settle(settled) ==
  /\ pc' = "exited"
  /\ outcome' = settled
  /\ exitCode' = ExitStatus(settled)

\* the end of main's try block
Return == Settle("fulfilled")

\* a mutant of Throw: the error is logged and the run goes on to the searches
Throw_goesOn(e) ==
  /\ caught' = e
  /\ pc' = "search"
  /\ outcome' = outcome
  /\ exitCode' = exitCode

\* an error reaches the catch block of main
Throw(e) ==
  /\ caught' = e
  /\ Settle(MainCatch)

----------------------------------------------------------------------------
(* getGoogleSheetsClient and initializeSpreadsheet *)

initRest == <<variant, delayed, pageVars, foundVars, cursorVars, batchVars,
              eventsLeft, searchHist, reqHist, appended, valVars>>

\* let offset = 0; let validBotsCount = 0 / validBots = []; let hasMore = true
StartQuery(p, r) ==
  /\ patIdx' = p
  /\ rangeIdx' = r
  /\ offset' = 0
  /\ validBotsCount' = 0
  /\ validBots' = <<>>
  /\ hasMore' = TRUE
  /\ searchOffsets' = <<>>
  /\ pageSizes' = <<>>
  /\ searchOk' = <<>>

Authenticate ==
  /\ pc = "auth"
  /\ \E a \in {OK, "ERR_AUTH"} :
       /\ nCalls' = nCalls + 1
       /\ IF a = OK
          THEN pc' = "init_get" /\ UNCHANGED <<outcome, exitCode, caught, fatalEvent>>
          ELSE Throw(a) /\ fatalEvent' = TRUE
  /\ UNCHANGED <<sheets, initialized, queryVars, queryHist, initRest>>

InitGet ==
  /\ pc = "init_get"
  /\ \E a \in GetAnswers(BaseSheet) :
       /\ nCalls' = nCalls + 1
       /\ pc' = IF a = OK THEN "init_clear" ELSE "init_create"
  /\ UNCHANGED <<outcome, exitCode, caught, fatalEvent, sheets, initialized,
                 queryVars, queryHist, initRest>>

InitClear ==
  /\ pc = "init_clear"
  /\ \E a \in ClearAnswers :
       /\ nCalls' = nCalls + 1
       /\ IF a = OK
          THEN pc' = "init_header" /\ sheets' = Cleared(BaseSheet)
          ELSE pc' = "init_create" /\ UNCHANGED sheets
  /\ UNCHANGED <<outcome, exitCode, caught, fatalEvent, initialized, queryVars,
                 queryHist, initRest>>

InitCreate ==
  /\ pc = "init_create"
  /\ \E a \in AddSheetAnswers(BaseSheet, {"ERR_NETWORK"}) :
       /\ nCalls' = nCalls + 1
       /\ IF a = OK
          THEN /\ pc' = "init_header"
               /\ sheets' = SheetAdded(BaseSheet)
               /\ UNCHANGED <<outcome, exitCode, caught, fatalEvent>>
          ELSE /\ Throw(a)
               /\ fatalEvent' = TRUE
               /\ UNCHANGED sheets
  /\ UNCHANGED <<initialized, queryVars, queryHist, initRest>>

InitHeader ==
  /\ pc = "init_header"
  /\ \E a \in {OK, "ERR_NETWORK"} :
       /\ nCalls' = nCalls + 1
       /\ IF a = OK
          THEN /\ sheets' = HeaderWritten(BaseSheet)
               /\ initialized' = initialized + 1
               /\ StartQuery(1, 1)
               /\ pc' = "search"
               /\ UNCHANGED <<outcome, exitCode, caught, fatalEvent>>
          ELSE /\ Throw(a)
               /\ fatalEvent' = TRUE
               /\ UNCHANGED <<sheets, initialized, queryVars, queryHist>>
  /\ UNCHANGED initRest


----------------------------------------------------------------------------
(* The pagination loop, parts both variants share *)

basePattern == BASE_PATTERNS[patIdx]

\* a mutant of ValidResults: every item of the page is taken
ValidResults_all(items, p) == items

\* result.items.filter(user => isValidBotNickname(user.nickname, basePattern))
ValidResults(items, p) ==
  LET Valid(user) == isValidBotNickname(user.nickname, p)
  IN  SelectSeq(items, Valid)

\* .map(user => ({userId: user.player_id, nickname: user.nickname}))
AsBots(users) ==
  [i \in 1..Len(users) |->
     [userId |-> users[i].player_id, nickname |-> users[i].nickname]]

\* a mutant of NextHasMore: the loop goes on after every page that has items
NextHasMore_nonEmpty(len) == len > 0

\* hasMore = result.items.length === limit
NextHasMore(len) == len = limit

\* a mutant of NextOffset: the offset advances by the size of the page
NextOffset_byPage(off, len) == off + len

\* offset += limit
NextOffset(off, len) == off + limit

\* the first valid result of each account, in the order of discovery
RECURSIVE FirstSeen(_, _)
FirstSeen(seen, bots) ==
  IF bots = <<>> THEN seen
  ELSE FirstSeen(IF \E i \in 1..Len(seen) : seen[i].userId = Head(bots).userId
                 THEN seen ELSE Append(seen, Head(bots)),
                 Tail(bots))

\* the candidates of an answer, each with the base pattern of the query
Returned(response) ==
  IF response.ok
  THEN { [player_id |-> response.data.items[i].player_id,
          nickname |-> response.data.items[i].nickname,
          pattern |-> basePattern] : i \in 1..Len(response.data.items) }
  ELSE {}

\* what one search call adds to the history and takes from the service
SearchIssued(response) ==
  /\ nCalls' = nCalls + 1
  /\ nSearch' = nSearch + 1
  /\ searchOffsets' = Append(searchOffsets, offset)
  /\ searchOk' = Append(searchOk, response.ok)
  /\ returned' = returned \cup Returned(response)
  /\ delayed' = FALSE
  /\ allSearchFailed' = (allSearchFailed /\ ~response.ok)
  /\ eventsLeft' = IF response.ok THEN eventsLeft - PageCost(response.data)
                   ELSE eventsLeft

----------------------------------------------------------------------------
(* Immediate variant: processValidBotsForPattern and saveImmediatelyToSheet *)

\* a mutant of NewValidBots: the ids of the page are marked as seen before
\* the new accounts are picked
NewValidBots_afterMark(validResults, processed) ==
  LET marked == processed \cup
                  { validResults[i].player_id : i \in 1..Len(validResults) }
      Unseen(user) == user.player_id \notin marked
  IN  AsBots(SelectSeq(validResults, Unseen))

\* a mutant of NewValidBots: only the first new account of a page is kept
NewValidBots_first(validResults, processed) ==
  LET Unseen(user) == user.player_id \notin processed
      new == AsBots(SelectSeq(validResults, Unseen))
  IN  IF new = <<>> THEN <<>> ELSE <<new[1]>>

\* validResults.filter(user => !processedUserIds.has(user.player_id))
NewValidBots(validResults, processed) ==
  LET Unseen(user) == user.player_id \notin processed
  IN  AsBots(SelectSeq(validResults, Unseen))

\* validResults.forEach(user => processedUserIds.add(user.player_id))
Processed(validResults, processed) ==
  processed \cup { validResults[i].player_id : i \in 1..Len(validResults) }

\* one turn of the while loop, up to its first await after the search
SearchImmediate ==
  /\ pc = "search"
  /\ variant = "immediate"
  /\ \E response \in SearchResponses(basePattern) :
       LET r == searchUsers(response) IN
       /\ SearchIssued(response)
       /\ IF r.threw
          THEN /\ Throw(r.error)
               /\ UNCHANGED <<pageSizes, processedUserIds, firstSeen, pageVars,
                              offset, hasMore, totalAccountsFound>>
          ELSE LET result == r.value
                   validResults == ValidResults(result.items, basePattern)
                   newValidBots == NewValidBots(validResults, processedUserIds)
               IN  /\ pageSizes' = Append(pageSizes, result.count)
                   /\ UNCHANGED <<outcome, exitCode, caught>>
                   /\ IF result.count > 0
                      THEN /\ processedUserIds' =
                                Processed(validResults, processedUserIds)
                           /\ firstSeen' = FirstSeen(firstSeen, AsBots(validResults))
                           /\ pageLen' = result.count
                           /\ pending' = newValidBots
                           /\ UNCHANGED totalAccountsFound
                           /\ IF Len(newValidBots) > 0
                              THEN /\ pc' = "save_append"
                                   /\ UNCHANGED <<offset, hasMore>>
                              ELSE /\ pc' = "page_delay"
                                   /\ offset' = NextOffset(offset, result.count)
                                   /\ hasMore' = NextHasMore(result.count)
                      ELSE /\ hasMore' = FALSE
                           /\ pc' = "iter_delay"
                           /\ totalAccountsFound' =
                                IF validBotsCount > 0
                                THEN totalAccountsFound + validBotsCount
                                ELSE totalAccountsFound
                           /\ UNCHANGED <<processedUserIds, firstSeen, pageVars,
                                          offset>>
  /\ UNCHANGED <<variant, initialized, patIdx, rangeIdx, validBotsCount, validBots,
                 totalAccountsSaved, allValidBots, cursorVars, batchVars,
                 sheets, fatalEvent, appended, reqHist, valVars>>

\* the bot at the head of newValidBots has been saved: the rest of the for
\* loop and, after its last turn, the end of the page
BotSaved ==
  /\ validBotsCount' = validBotsCount + 1
  /\ totalAccountsSaved' = totalAccountsSaved + 1
  /\ pending' = Tail(pending)
  /\ IF Tail(pending) # <<>>
     THEN pc' = "save_append" /\ UNCHANGED <<offset, hasMore>>
     ELSE /\ pc' = "page_delay"
          /\ offset' = NextOffset(offset, pageLen)
          /\ hasMore' = NextHasMore(pageLen)

\* const row = [user.userId, user.nickname]
Row(user) == <<user.userId, user.nickname>>

\* a mutant of NewSheetErrorHandler: a limit error of the retry rolls over again
NewSheetErrorHandler_again(message) ==
  IF IsLimitError(message) THEN "rollover" ELSE "throw"

\* catch (newSheetError) { console.error(...); throw newSheetError; }
NewSheetErrorHandler(message) == "throw"

saveRest == <<variant, initialized, delayed, patIdx, rangeIdx, validBots, pageLen,
              processedUserIds, totalAccountsFound, allValidBots, batchVars,
              searchHist, queryHist, valVars>>

\* the first append of saveImmediatelyToSheet and its catch block
SaveAppend ==
  /\ pc = "save_append"
  /\ \E a \in {OK} \cup Injected(AppendErrors) :
       LET row == Row(Head(pending)) IN
       /\ nCalls' = nCalls + 1
       /\ reqCalls' = <<Call("append", currentSheet, a)>>
       /\ reqRows' = <<row>>
       /\ reqPre' = sheets
       /\ reqIndex' = sheetIndex
       /\ eventsLeft' = IF a = OK THEN eventsLeft ELSE eventsLeft - 1
       /\ fatalEvent' = (fatalEvent \/ (a # OK /\ ~IsCapacity(a)))
       /\ IF a = OK
          THEN /\ sheets' = RowsAppended(currentSheet, <<row>>)
               /\ appended' = Append(appended, row)
               /\ BotSaved
               /\ UNCHANGED <<outcome, exitCode, caught, cursorVars>>
          ELSE IF IsLimitError(ErrorMessage(a))
          THEN /\ sheetIndex' = sheetIndex + 1
               /\ currentSheet' = SheetTitle(sheetIndex + 1)
               /\ pc' = "save_create"
               /\ UNCHANGED <<outcome, exitCode, caught, sheets, appended, pending,
                              validBotsCount, totalAccountsSaved, offset,
                              hasMore>>
          ELSE /\ Throw(a)
               /\ UNCHANGED <<cursorVars, sheets, appended, pending,
                              validBotsCount, totalAccountsSaved, offset,
                              hasMore>>
  /\ UNCHANGED saveRest

\* batchUpdate({addSheet: {title: currentSheet}}) of the rollover
SaveCreate ==
  /\ pc = "save_create"
  /\ \E a \in AddSheetAnswers(currentSheet, Injected({"ERR_NETWORK"})) :
       /\ nCalls' = nCalls + 1
       /\ reqCalls' = Append(reqCalls, Call("create", currentSheet, a))
       /\ eventsLeft' = IF a = "ERR_NETWORK" THEN eventsLeft - 1 ELSE eventsLeft
       /\ fatalEvent' = (fatalEvent \/ a # OK)
       /\ IF a = OK
          THEN /\ sheets' = SheetAdded(currentSheet)
               /\ pc' = "save_header"
               /\ UNCHANGED <<outcome, exitCode, caught>>
          ELSE /\ Throw(a)
               /\ UNCHANGED sheets
  /\ UNCHANGED <<cursorVars, appended, pending, validBotsCount,
                 totalAccountsSaved, offset, hasMore, reqRows, reqPre,
                 reqIndex, saveRest>>

\* values.update of the header of the new sheet
SaveHeader ==
  /\ pc = "save_header"
  /\ \E a \in {OK} \cup Injected({"ERR_NETWORK"}) :
       /\ nCalls' = nCalls + 1
       /\ reqCalls' = Append(reqCalls, Call("header", currentSheet, a))
       /\ eventsLeft' = IF a = OK THEN eventsLeft ELSE eventsLeft - 1
       /\ fatalEvent' = (fatalEvent \/ a # OK)
       /\ IF a = OK
          THEN /\ sheets' = HeaderWritten(currentSheet)
               /\ pc' = "save_retry"
               /\ UNCHANGED <<outcome, exitCode, caught>>
          ELSE /\ Throw(a)
               /\ UNCHANGED sheets
  /\ UNCHANGED <<cursorVars, appended, pending, validBotsCount,
                 totalAccountsSaved, offset, hasMore, reqRows, reqPre,
                 reqIndex, saveRest>>

\* the append to the new sheet, and the inner catch block
SaveRetry ==
  /\ pc = "save_retry"
  /\ \E a \in {OK} \cup Injected(RetryErrors) :
       LET row == Row(Head(pending)) IN
       /\ nCalls' = nCalls + 1
       /\ reqCalls' = Append(reqCalls, Call("append", currentSheet, a))
       /\ eventsLeft' = IF a = OK THEN eventsLeft ELSE eventsLeft - 1
       /\ fatalEvent' = (fatalEvent \/ a # OK)
       /\ IF a = OK
          THEN /\ sheets' = RowsAppended(currentSheet, <<row>>)
               /\ appended' = Append(appended, row)
               /\ BotSaved
               /\ UNCHANGED <<outcome, exitCode, caught, cursorVars>>
          ELSE IF NewSheetErrorHandler(ErrorMessage(a)) = "throw"
          THEN /\ Throw(a)
               /\ UNCHANGED <<cursorVars, sheets, appended, pending,
                              validBotsCount, totalAccountsSaved, offset,
                              hasMore>>
          ELSE /\ sheetIndex' = sheetIndex + 1
               /\ currentSheet' = SheetTitle(sheetIndex + 1)
               /\ pc' = "save_create"
               /\ UNCHANGED <<outcome, exitCode, caught, sheets, appended, pending,
                              validBotsCount, totalAccountsSaved, offset,
                              hasMore>>
  /\ UNCHANGED <<reqRows, reqPre, reqIndex, saveRest>>

\* a mutant of Delay: no timer is awaited
Delay_none(ms) == delayed' = delayed

\* await new Promise(resolve => setTimeout(resolve, ms))
Delay(ms) == delayed' = TRUE

\* the history of an append request ends when the loop moves on
NoRequest ==
  /\ reqCalls' = <<>>
  /\ reqRows' = <<>>
  /\ reqPre' = <<>>
  /\ reqIndex' = sheetIndex

\* the 500 ms delay after a page, the loop test, and the return to main
PageDelayImmediate ==
  /\ pc = "page_delay"
  /\ variant = "immediate"
  /\ IF hasMore
     THEN pc' = "search" /\ UNCHANGED totalAccountsFound
     ELSE /\ pc' = "iter_delay"
          /\ totalAccountsFound' =
               IF validBotsCount > 0 THEN totalAccountsFound + validBotsCount
               ELSE totalAccountsFound
  /\ NoRequest
  /\ Delay(500)
  /\ UNCHANGED <<variant, initialized, outcome, exitCode, caught, queryVars, pageVars,
                 processedUserIds, totalAccountsSaved, allValidBots,
                 cursorVars, batchVars, envVars, nCalls, searchHist, queryHist,
                 fatalEvent, appended, valVars>>

\* the 1000 ms delay after a (basePattern, numberRange), then the next one
IterDelayImmediate ==
  /\ pc = "iter_delay"
  /\ variant = "immediate"
  /\ IF rangeIdx < Len(numberRanges)
     THEN /\ StartQuery(patIdx, rangeIdx + 1)
          /\ pc' = "search"
          /\ UNCHANGED <<outcome, exitCode>>
     ELSE IF patIdx < Len(BASE_PATTERNS)
     THEN /\ StartQuery(patIdx + 1, 1)
          /\ pc' = "search"
          /\ UNCHANGED <<outcome, exitCode>>
     ELSE /\ Return
          /\ UNCHANGED <<queryVars, queryHist>>
  /\ Delay(1000)
  /\ UNCHANGED <<variant, initialized, caught, pageVars, foundVars, cursorVars,
                 batchVars, envVars, nCalls, searchHist, fatalEvent, appended,
                 reqHist, valVars>>


----------------------------------------------------------------------------
(* Buffered variant: getAllValidBotsForPattern, main's de-duplication and  *)
(* writeUsersToSheet                                                       *)

\* one turn of the while loop of getAllValidBotsForPattern
SearchBuffered ==
  /\ pc = "search"
  /\ variant = "buffered"
  /\ \E response \in SearchResponses(basePattern) :
       LET r == searchUsers(response) IN
       /\ SearchIssued(response)
       /\ IF r.threw
          THEN /\ Throw(r.error)
               /\ UNCHANGED <<pageSizes, firstSeen, pageLen, validBots,
                              offset, hasMore, allValidBots>>
          ELSE LET result == r.value
                   validResults == ValidResults(result.items, basePattern)
               IN  /\ pageSizes' = Append(pageSizes, result.count)
                   /\ UNCHANGED <<outcome, exitCode, caught>>
                   /\ IF result.count > 0
                      THEN /\ validBots' = validBots \o AsBots(validResults)
                           /\ firstSeen' = FirstSeen(firstSeen, AsBots(validResults))
                           /\ pageLen' = result.count
                           /\ offset' = NextOffset(offset, result.count)
                           /\ hasMore' = NextHasMore(result.count)
                           /\ pc' = "page_delay"
                           /\ UNCHANGED allValidBots
                      ELSE /\ hasMore' = FALSE
                           /\ pc' = "iter_delay"
                           /\ allValidBots' =
                                IF Len(validBots) > 0
                                THEN allValidBots \o validBots
                                ELSE allValidBots
                           /\ UNCHANGED <<validBots, firstSeen, pageLen,
                                          offset>>
  /\ UNCHANGED <<variant, initialized, patIdx, rangeIdx, validBotsCount, pending,
                 processedUserIds, totalAccountsSaved, totalAccountsFound,
                 cursorVars, batchVars, sheets, fatalEvent,
                 appended, reqHist, valVars>>

\* the 500 ms delay after a page, the loop test, and the return to main
PageDelayBuffered ==
  /\ pc = "page_delay"
  /\ variant = "buffered"
  /\ IF hasMore
     THEN pc' = "search" /\ UNCHANGED allValidBots
     ELSE /\ pc' = "iter_delay"
          /\ allValidBots' = IF Len(validBots) > 0
                             THEN allValidBots \o validBots
                             ELSE allValidBots
  /\ Delay(500)
  /\ UNCHANGED <<variant, initialized, outcome, exitCode, caught, queryVars, pageVars,
                 processedUserIds, totalAccountsSaved, totalAccountsFound,
                 cursorVars, batchVars, envVars, nCalls, searchHist, queryHist,
                 fatalEvent, appended, reqHist, valVars>>

\* Map.prototype.set on a Map kept as its entries in insertion order: a key
\* already present keeps its place and takes the new value
MapSet(m, k, v) ==
  IF \E i \in 1..Len(m) : m[i].key = k
  THEN [i \in 1..Len(m) |-> IF m[i].key = k THEN [key |-> k, value |-> v]
                            ELSE m[i]]
  ELSE Append(m, [key |-> k, value |-> v])

\* new Map(entries)
RECURSIVE NewMap(_)
NewMap(entries) ==
  IF entries = <<>> THEN <<>>
  ELSE LET n == Len(entries)
           e == entries[n]
       IN  MapSet(NewMap(SubSeq(entries, 1, n - 1)), e[1], e[2])

\* a mutant of MapValues: the values come out last key first
MapValues_reversed(m) == [i \in 1..Len(m) |-> m[Len(m) + 1 - i].value]

\* Array.from(map.values())
MapValues(m) == [i \in 1..Len(m) |-> m[i].value]

\* Array.from(new Map(allValidBots.map(bot => [bot.userId, bot])).values())
UniqueBots(bots) ==
  MapValues(NewMap([i \in 1..Len(bots) |-> <<bots[i].userId, bots[i]>>]))

\* a mutant of Batches: each slice runs one row into the next one
Batches_overlap(allRows, i) ==
  LET n == Len(allRows) - i
      count == (n + BATCH_SIZE - 1) \div BATCH_SIZE
  IN  [k \in 1..count |->
         SubSeq(allRows, i + (k - 1) * BATCH_SIZE + 1,
                Min(i + k * BATCH_SIZE + 1, Len(allRows)))]

\* for (let i = 0; i < allRows.length; i += BATCH_SIZE)
\*   batches.push(allRows.slice(i, i + BATCH_SIZE))
RECURSIVE Batches(_, _)
Batches(allRows, i) ==
  IF i >= Len(allRows) THEN <<>>
  ELSE <<SubSeq(allRows, i + 1, Min(i + BATCH_SIZE, Len(allRows)))>>
         \o Batches(allRows, i + BATCH_SIZE)

\* the 1000 ms delay after a (basePattern, numberRange), then the next one;
\* after the last one the de-duplication and the start of writeUsersToSheet
IterDelayBuffered ==
  /\ pc = "iter_delay"
  /\ variant = "buffered"
  /\ IF rangeIdx < Len(numberRanges)
     THEN /\ StartQuery(patIdx, rangeIdx + 1)
          /\ pc' = "search"
          /\ UNCHANGED <<outcome, exitCode, cursorVars, batchVars>>
     ELSE IF patIdx < Len(BASE_PATTERNS)
     THEN /\ StartQuery(patIdx + 1, 1)
          /\ pc' = "search"
          /\ UNCHANGED <<outcome, exitCode, cursorVars, batchVars>>
     ELSE \E uniqueBots \in {UniqueBots(allValidBots)} :
          \E allRows \in {[i \in 1..Len(uniqueBots) |-> Row(uniqueBots[i])]} :
              /\ UNCHANGED <<queryVars, queryHist>>
              /\ IF Len(uniqueBots) = 0
                 THEN /\ Return
                      /\ UNCHANGED <<cursorVars, batchVars>>
                 ELSE /\ batches' = Batches(allRows, 0)
                      /\ batchIdx' = 1
                      /\ totalProcessed' = 0
                      /\ currentSheet' = BaseSheet
                      /\ sheetIndex' = 1
                      /\ pc' = "write_append"
                      /\ UNCHANGED <<outcome, exitCode>>
  /\ Delay(1000)
  /\ UNCHANGED <<variant, initialized, caught, pageVars, foundVars, envVars,
                 nCalls, searchHist, fatalEvent, appended, reqHist, valVars>>

writeRest == <<variant, initialized, delayed, queryVars, pageVars, foundVars, batches,
               batchIdx, searchHist, queryHist,
               valVars>>

\* the first append of a batch and its catch block
WriteAppend ==
  /\ pc = "write_append"
  /\ \E a \in {OK} \cup Injected(AppendErrors) :
       LET batch == batches[batchIdx] IN
       /\ nCalls' = nCalls + 1
       /\ reqCalls' = <<Call("append", currentSheet, a)>>
       /\ reqRows' = batch
       /\ reqPre' = sheets
       /\ reqIndex' = sheetIndex
       /\ eventsLeft' = IF a = OK THEN eventsLeft ELSE eventsLeft - 1
       /\ fatalEvent' = (fatalEvent \/ (a # OK /\ ~IsCapacity(a)))
       /\ IF a = OK
          THEN /\ sheets' = RowsAppended(currentSheet, batch)
               /\ appended' = appended \o batch
               /\ totalProcessed' = totalProcessed + Len(batch)
               /\ pc' = "batch_delay"
               /\ UNCHANGED <<outcome, exitCode, caught, cursorVars>>
          ELSE IF IsLimitError(ErrorMessage(a))
          THEN /\ sheetIndex' = sheetIndex + 1
               /\ currentSheet' = SheetTitle(sheetIndex + 1)
               /\ pc' = "write_create"
               /\ UNCHANGED <<outcome, exitCode, caught, sheets, appended,
                              totalProcessed>>
          ELSE /\ Throw(a)
               /\ UNCHANGED <<cursorVars, sheets, appended, totalProcessed>>
  /\ UNCHANGED writeRest

\* batchUpdate({addSheet: {title: currentSheet}}) of the rollover
WriteCreate ==
  /\ pc = "write_create"
  /\ \E a \in AddSheetAnswers(currentSheet, Injected({"ERR_NETWORK"})) :
       /\ nCalls' = nCalls + 1
       /\ reqCalls' = Append(reqCalls, Call("create", currentSheet, a))
       /\ eventsLeft' = IF a = "ERR_NETWORK" THEN eventsLeft - 1 ELSE eventsLeft
       /\ fatalEvent' = (fatalEvent \/ a # OK)
       /\ IF a = OK
          THEN /\ sheets' = SheetAdded(currentSheet)
               /\ pc' = "write_header"
               /\ UNCHANGED <<outcome, exitCode, caught>>
          ELSE /\ Throw(a)
               /\ UNCHANGED sheets
  /\ UNCHANGED <<cursorVars, appended, totalProcessed, reqRows, reqPre,
                 reqIndex, writeRest>>

\* values.update of the header of the new sheet
WriteHeader ==
  /\ pc = "write_header"
  /\ \E a \in {OK} \cup Injected({"ERR_NETWORK"}) :
       /\ nCalls' = nCalls + 1
       /\ reqCalls' = Append(reqCalls, Call("header", currentSheet, a))
       /\ eventsLeft' = IF a = OK THEN eventsLeft ELSE eventsLeft - 1
       /\ fatalEvent' = (fatalEvent \/ a # OK)
       /\ IF a = OK
          THEN /\ sheets' = HeaderWritten(currentSheet)
               /\ pc' = "write_retry"
               /\ UNCHANGED <<outcome, exitCode, caught>>
          ELSE /\ Throw(a)
               /\ UNCHANGED sheets
  /\ UNCHANGED <<cursorVars, appended, totalProcessed, reqRows, reqPre,
                 reqIndex, writeRest>>

\* the append of the batch to the new sheet, and the inner catch block
WriteRetry ==
  /\ pc = "write_retry"
  /\ \E a \in {OK} \cup Injected(RetryErrors) :
       LET batch == batches[batchIdx] IN
       /\ nCalls' = nCalls + 1
       /\ reqCalls' = Append(reqCalls, Call("append", currentSheet, a))
       /\ eventsLeft' = IF a = OK THEN eventsLeft ELSE eventsLeft - 1
       /\ fatalEvent' = (fatalEvent \/ a # OK)
       /\ IF a = OK
          THEN /\ sheets' = RowsAppended(currentSheet, batch)
               /\ appended' = appended \o batch
               /\ totalProcessed' = totalProcessed + Len(batch)
               /\ pc' = "batch_delay"
               /\ UNCHANGED <<outcome, exitCode, caught, cursorVars>>
          ELSE IF NewSheetErrorHandler(ErrorMessage(a)) = "throw"
          THEN /\ Throw(a)
               /\ UNCHANGED <<cursorVars, sheets, appended, totalProcessed>>
          ELSE /\ sheetIndex' = sheetIndex + 1
               /\ currentSheet' = SheetTitle(sheetIndex + 1)
               /\ pc' = "write_create"
               /\ UNCHANGED <<outcome, exitCode, caught, sheets, appended,
                              totalProcessed>>
  /\ UNCHANGED <<reqRows, reqPre, reqIndex, writeRest>>

\* the 100 ms delay after a batch, then the next batch or the return to main
BatchDelay ==
  /\ pc = "batch_delay"
  /\ IF batchIdx < Len(batches)
     THEN /\ batchIdx' = batchIdx + 1
          /\ pc' = "write_append"
          /\ UNCHANGED <<outcome, exitCode>>
     ELSE /\ Return
          /\ UNCHANGED batchIdx
  /\ NoRequest
  /\ Delay(100)
  /\ UNCHANGED <<variant, initialized, caught, queryVars, pageVars, foundVars,
                 cursorVars, batches, totalProcessed, envVars, nCalls,
                 searchHist, queryHist, fatalEvent, appended, valVars>>

----------------------------------------------------------------------------
(* The run *)

Next ==
  \/ Authenticate
  \/ InitGet
  \/ InitClear
  \/ InitCreate
  \/ InitHeader
  \/ SearchImmediate
  \/ SaveAppend
  \/ SaveCreate
  \/ SaveHeader
  \/ SaveRetry
  \/ PageDelayImmediate
  \/ IterDelayImmediate
  \/ SearchBuffered
  \/ PageDelayBuffered
  \/ IterDelayBuffered
  \/ WriteAppend
  \/ WriteCreate
  \/ WriteHeader
  \/ WriteRetry
  \/ BatchDelay

Spec == Init /\ [][Next]_vars

\* main is one chain of awaits: whenever a step can be taken, one is taken
FairSpec == Spec /\ WF_vars(Next)


----------------------------------------------------------------------------
(* isValidBotNickname on its own: every nickname and base pattern over a   *)
(* small alphabet, up to MaxNickLen and MaxPatLen characters               *)

Alphabet == {"T", "t", "_", "7"}

\* a run that never starts: only the validator's variables matter
RunIdle ==
  /\ variant = "immediate"
  /\ pc = "exited"
  /\ outcome = "pending"
  /\ exitCode = -1
  /\ caught = NoError
  /\ patIdx = 1 /\ rangeIdx = 1
  /\ offset = 0 /\ hasMore = TRUE
  /\ pageLen = 0 /\ pending = <<>>
  /\ validBotsCount = 0 /\ validBots = <<>>
  /\ processedUserIds = {}
  /\ totalAccountsSaved = 0 /\ totalAccountsFound = 0
  /\ allValidBots = <<>>
  /\ currentSheet = BaseSheet /\ sheetIndex = 1
  /\ batches = <<>> /\ batchIdx = 0 /\ totalProcessed = 0
  /\ sheets = <<>>
  /\ eventsLeft = 0
  /\ nCalls = 0 /\ nSearch = 0
  /\ allSearchFailed = TRUE /\ fatalEvent = FALSE
  /\ searchOffsets = <<>> /\ pageSizes = <<>>
  /\ firstSeen = <<>> /\ appended = <<>>
  /\ reqCalls = <<>> /\ reqRows = <<>> /\ reqPre = <<>> /\ reqIndex = 1
  /\ initialized = 0 /\ searchOk = <<>> /\ returned = {} /\ delayed = FALSE

InitValidator ==
  /\ RunIdle
  /\ vNickname \in SeqsUpTo(Alphabet, MaxNickLen)
  /\ vBasePattern \in SeqsUpTo(Alphabet, MaxPatLen)
  /\ vResult = <<>>

\* one call of isValidBotNickname
Validate ==
  /\ vResult = <<>>
  /\ vResult' = <<isValidBotNickname(vNickname, vBasePattern)>>
  /\ UNCHANGED <<progVars, envVars, histVars, vNickname, vBasePattern>>

NextValidator == Validate

SpecValidator == InitValidator /\ [][NextValidator]_vars


----------------------------------------------------------------------------
(* initializeSpreadsheet on its own: called again and again on the same    *)
(* spreadsheet, as successive runs of the script do, up to MaxInitCalls    *)

InitPcs == {"init_get", "init_clear", "init_create", "init_header"}

\* await initializeSpreadsheet(sheetsClient), once more
InitializeAgain ==
  /\ pc = "search"
  /\ nSearch = 0
  /\ initialized < MaxInitCalls
  /\ pc' = "init_get"
  /\ UNCHANGED <<variant, outcome, exitCode, caught, queryVars, pageVars,
                 foundVars, cursorVars, batchVars, envVars, histVars, valVars>>

NextInitialize ==
  \/ Authenticate
  \/ InitGet
  \/ InitClear
  \/ InitCreate
  \/ InitHeader
  \/ InitializeAgain

SpecInitialize == Init /\ [][NextInitialize]_vars

----------------------------------------------------------------------------
(* Claims *)

RequestPcs == {"save_create", "save_header", "save_retry",
               "write_create", "write_header", "write_retry"}

\* the number of calls of kind op in the current append request
CountCalls(op) == Cardinality({ i \in 1..Len(reqCalls) : reqCalls[i].op = op })

\* the title of the sheet with index i, written out
TitleOf(i) == IF i = 1 THEN <<SHEET_NAME>> ELSE <<SHEET_NAME, "_", i>>

\* C1: the rows appended in a run hold each accountId in at most one row,
\* in the immediate variant and in the buffered variant.
C1_AtMostOnce ==
  \A i, j \in 1..Len(appended) :
    i < j => appended[i][1] # appended[j][1]

\* the nickname is pattern, one underscore, one or more ASCII digits
OfBotFormat(nickname, pattern) ==
  \E k \in 1..Len(nickname) :
    LET d == SubSeq(nickname, Len(nickname) - k + 1, Len(nickname))
    IN  /\ \A i \in 1..k : d[i] \in {"0","1","2","3","4","5","6","7","8","9"}
        /\ nickname = pattern \o <<"_">> \o d

\* C2: isValidBotNickname(nickname, basePattern) is true if and only if
\* nickname is basePattern, then exactly one underscore, then one or more
\* ASCII digits and nothing more; also for a pattern that ends in "_".
C2_ValidIffBotFormat ==
  vResult # <<>> => (vResult[1] <=> OfBotFormat(vNickname, vBasePattern))

\* a nickname was accepted for a base pattern that itself ends in "_"
C2_Witness ==
  /\ vResult = <<TRUE>>
  /\ vBasePattern # <<>>
  /\ vBasePattern[Len(vBasePattern)] = "_"

\* the first append of the request failed for capacity and no later call of
\* the request has failed
CapacityThenSuccess ==
  /\ reqCalls # <<>>
  /\ IsCapacity(reqCalls[1].answer)
  /\ \A i \in 2..Len(reqCalls) : reqCalls[i].answer = OK

\* C3: when an append to the active sheet X fails for capacity and the calls
\* after it succeed, the writer issues one create-sheet call for the next
\* overflow sheet (X_2 on the first rollover), then one header write to it,
\* then one append of the same rows to it; afterwards the new sheet holds
\* the header and the rows once, X is as it was before the request, and the
\* new sheet is the active one, so later appends go to it.
C3_Rollover ==
  /\ reqCalls # <<>> =>
       /\ reqCalls[1].op = "append"
       /\ reqCalls[1].sheet = TitleOf(reqIndex)
  /\ CapacityThenSuccess =>
       LET X == reqCalls[1].sheet
           new == <<SHEET_NAME, "_", reqIndex + 1>>
           expected == <<Call("append", X, reqCalls[1].answer),
                         Call("create", new, OK),
                         Call("header", new, OK),
                         Call("append", new, OK)>>
       IN  /\ Len(reqCalls) <= 4
           /\ reqCalls = SubSeq(expected, 1, Len(reqCalls))
           /\ sheetIndex = reqIndex + 1
           /\ currentSheet = new
           /\ pc \notin RequestPcs => Len(reqCalls) = 4
           /\ Len(reqCalls) = 4 =>
                /\ sheets[new] = <<HEADER>> \o reqRows
                /\ sheets[X] = reqPre[X]
                /\ DOMAIN sheets = DOMAIN reqPre \cup {new}

\* a first rollover has gone through: the rows are on the sheet created
C3_Witness ==
  /\ CapacityThenSuccess
  /\ Len(reqCalls) = 4
  /\ reqIndex = 1
  /\ reqRows # <<>>

\* C4: for one append request the writer issues at most two append calls and
\* creates at most one sheet; when the create-sheet call, the header write
\* or the retried append fails (a capacity error of the retry included) the
\* error reaches main as fatal and nothing more is done for the request.
C4_RetryAtMostOnce ==
  /\ CountCalls("append") <= 2
  /\ CountCalls("create") <= 1
  /\ \A i \in 2..Len(reqCalls) :
       reqCalls[i].answer # OK =>
         /\ i = Len(reqCalls)
         /\ pc = "exited"
         /\ caught = reqCalls[i].answer

\* the retried append failed for capacity again and the run ended there
C4_Witness ==
  /\ Len(reqCalls) = 4
  /\ IsCapacity(reqCalls[1].answer)
  /\ IsCapacity(reqCalls[4].answer)
  /\ pc = "exited"

\* C5: an append failure that is not a capacity violation is never answered
\* by a rollover: no sheet is created, the append is not retried, sheetIndex
\* and currentSheet stay as they were, and the error reaches the caller.
C5_OnlyCapacityRollsOver ==
  (reqCalls # <<>> /\ reqCalls[1].answer # OK /\ ~IsCapacity(reqCalls[1].answer))
    => /\ Len(reqCalls) = 1
       /\ sheetIndex = reqIndex
       /\ currentSheet = reqCalls[1].sheet
       /\ DOMAIN sheets = DOMAIN reqPre
       /\ pc = "exited"
       /\ caught = reqCalls[1].answer

\* (basePattern, numberRange) pairs whose search has begun
QueriesBegun == (patIdx - 1) * Len(numberRanges) + rangeIdx

\* C6: searchUsers never raises; when every search call fails, each
\* (pattern, numberRange) issues exactly one search call and yields no
\* account, no error reaches main, no row is appended, and the run goes
\* through every pair to its normal end.
C6_FailSoft ==
  (allSearchFailed /\ nSearch > 0) =>
    /\ caught = NoError
    /\ appended = <<>>
    /\ firstSeen = <<>>
    /\ validBots = <<>> /\ allValidBots = <<>> /\ validBotsCount = 0
    /\ Len(searchOffsets) <= 1
    /\ nSearch = QueriesBegun - (IF pc = "search" THEN 1 ELSE 0)
    /\ pc = "exited" =>
         /\ outcome = "fulfilled"
         /\ nSearch = Len(BASE_PATTERNS) * Len(numberRanges)

\* every search call failed and the run went through every pair
C6_Witness ==
  /\ allSearchFailed
  /\ pc = "exited"
  /\ nSearch = Len(BASE_PATTERNS) * Len(numberRanges)
  /\ nSearch > 1

\* C7: within one (pattern, numberRange) the search calls have the offsets
\* 0, limit, 2*limit, ... in this order; a further call follows a page
\* exactly when the page had limit items, so k full pages and then a page
\* of fewer items (none included) make k+1 calls.
C7_Pagination ==
  /\ \A i \in 1..Len(searchOffsets) : searchOffsets[i] = (i - 1) * limit
  /\ Len(pageSizes) <= Len(searchOffsets)
  /\ \A i \in 1..Len(pageSizes) :
       i < Len(searchOffsets) => pageSizes[i] = limit
  /\ pc = "iter_delay" =>
       /\ Len(pageSizes) = Len(searchOffsets)
       /\ pageSizes # <<>>
       /\ pageSizes[Len(pageSizes)] < limit
  /\ (pc = "search" /\ pageSizes # <<>>) => pageSizes[Len(pageSizes)] = limit

\* one full page, then a shorter page that is not empty: two calls
C7_Witness ==
  /\ pc = "iter_delay"
  /\ searchOffsets = <<0, limit>>
  /\ pageSizes[1] = limit
  /\ pageSizes[2] > 0 /\ pageSizes[2] < limit

\* C8: an accountId found several times under different nicknames is
\* written with the nickname of its first discovery; here for the buffered
\* variant, whose rows come from main's Map of allValidBots.
C8_FirstNicknameKept ==
  variant = "buffered" =>
    \A i \in 1..Len(appended) : \A j \in 1..Len(firstSeen) :
      firstSeen[j].userId = appended[i][1]
        => appended[i][2] = firstSeen[j].nickname

\* C9: a run that ends by a fatal error ends with a failure outcome: the
\* promise of main rejects or the exit status is not zero.
C9_FatalIsFailure ==
  (pc = "exited" /\ caught # NoError) =>
    (outcome = "rejected" \/ exitCode # 0)

\* C10: after an authentication failure, a sheet-initialisation failure, an
\* append failure that is not for capacity, or a failed rollover, no call is
\* issued any more; and a step that issues a search call never ends the run
\* by an error.
C10_FatalAborts ==
  /\ [][fatalEvent => nCalls' = nCalls]_vars
  /\ [][nSearch' # nSearch => caught' = NoError]_vars

\* C11: when a call of initializeSpreadsheet has returned, the first or a
\* later one, whether or not the target sheet existed before and whatever
\* its columns A:B held, the target sheet exists and holds exactly one row,
\* the header; every other sheet is as the call found it.
C11_InitializePostcondition ==
  /\ (initialized >= 1 /\ pc = "search" /\ nSearch = 0) =>
       /\ BaseSheet \in DOMAIN sheets
       /\ sheets[BaseSheet] = <<HEADER>>
  /\ pc \in InitPcs \cup {"search"} =>
       \A t \in DOMAIN sheets \ {BaseSheet} : sheets[t] = <<HEADER, STALE_ROW>>

\* a second call has returned
C11_Witness ==
  /\ initialized = 2
  /\ pc = "search"
  /\ sheets[BaseSheet] = <<HEADER>>

\* the ranges for an upper end max are "", "*", and then the spans of width
\* 20 from 1 on, each starting where the one before ended, the last one
\* ending at max
RangesPartition(max) ==
  LET r == NumberRangesUpTo(max)
      n == Len(r) - 2
  IN  /\ n >= 1
      /\ r[1] = <<>>
      /\ r[2] = <<"*">>
      /\ \A k \in 1..n :
           /\ r[k + 2][1] = (IF k = 1 THEN 1 ELSE r[k + 1][3] + 1)
           /\ r[k + 2][2] = "-"
           /\ r[k + 2][3] = (IF k = n THEN max ELSE r[k + 2][1] + 19)
           /\ r[k + 2][1] <= r[k + 2][3]
           /\ r[k + 2][3] - r[k + 2][1] <= 19

\* the ranges the code makes for several upper ends, MAX = 40 and the code's
\* MAX = 400 among them
RangesAsSpecified ==
  /\ \A max \in (1..45) \cup {RangeMax, 400} : RangesPartition(max)
  /\ NumberRangesUpTo(40) = << <<>>, <<"*">>, <<1, "-", 20>>, <<21, "-", 40>> >>
  /\ Len(NumberRangesUpTo(400)) = 22
  /\ NumberRangesUpTo(400)[22] = <<381, "-", 400>>
  /\ numberRanges = NumberRangesUpTo(RangeMax)

\* C12: for every base pattern the ranges searched are, in this order, "",
\* "*" and then the spans "<start>-<end>" of width 20 that cover 1..MAX
\* without gap or overlap, the last one clamped to MAX; MAX = 40 gives
\* "", "*", "1-20", "21-40", and MAX = 400 gives 22 ranges, the last one
\* "381-400".
C12_NumberRanges ==
  /\ [](RangesAsSpecified /\ rangeIdx \in 1..Len(numberRanges))
  /\ [][rangeIdx' # rangeIdx =>
          /\ nSearch' = nSearch
          /\ \/ rangeIdx' = rangeIdx + 1 /\ patIdx' = patIdx
             \/ /\ rangeIdx = Len(numberRanges)
                /\ rangeIdx' = 1
                /\ patIdx' = patIdx + 1]_vars
  /\ [][nSearch' # nSearch => rangeIdx' = rangeIdx /\ patIdx' = patIdx]_vars

\* the second base pattern is searched with the first numeric span, after
\* "" and "*"
C12_Witness ==
  /\ pc = "search"
  /\ patIdx = 2
  /\ rangeIdx = 3
  /\ numberRanges[rangeIdx] = <<1, "-", 20>>
  /\ nSearch >= 5

\* C13: whatever the search service answers, persistent failures included,
\* the run reaches its terminal state, all pairs searched or a fatal error
\* caught, when main's steps are taken as long as one can be taken; main
\* does not get there before the pagination loop of every (basePattern,
\* numberRange) it has entered has come to its end.
C13_Termination == <>(pc = "exited")

\* the run has ended in the ordinary way and the last call of its last
\* query, at the offset after a page of `limit` items, had failed
C13_Witness ==
  /\ pc = "exited"
  /\ caught = NoError
  /\ searchOk = <<TRUE, FALSE>>
  /\ searchOffsets = <<0, limit>>

\* the last search call of the current query failed
LastSearchFailed == searchOk # <<>> /\ ~searchOk[Len(searchOk)]

\* the (basePattern, numberRange) in turn is the last one
LastPair == rangeIdx = Len(numberRanges) /\ patIdx = Len(BASE_PATTERNS)

\* C14: a search call that fails, at whatever offset, ends its query as an
\* empty last page does: it is the last call of the query, what the earlier
\* pages of the query gave is kept (the rows appended and the count in the
\* immediate variant, the accounts handed to main in the buffered one), no
\* error is raised, and after the delay the run goes on with the next
\* (basePattern, numberRange).
C14_FailedPageEndsQuery ==
  /\ [](/\ \A i \in 1..(Len(searchOk) - 1) : searchOk[i]
        /\ LastSearchFailed => pc \notin {"search", "page_delay", "save_append"}
        /\ (LastSearchFailed /\ pc = "iter_delay") =>
             caught = NoError /\ ~hasMore)
  /\ [][(nSearch' # nSearch /\ ~searchOk'[Len(searchOk')]) =>
          /\ pc' = "iter_delay"
          /\ appended' = appended
          /\ firstSeen' = firstSeen
          /\ validBotsCount' = validBotsCount
          /\ validBots' = validBots
          /\ processedUserIds' = processedUserIds
          /\ variant = "immediate" =>
               totalAccountsFound' = totalAccountsFound + validBotsCount
          /\ variant = "buffered" =>
               allValidBots' = allValidBots \o validBots]_vars
  /\ [][(LastSearchFailed /\ pc = "iter_delay" /\ ~LastPair) =>
          /\ pc' = "search"
          /\ searchOk' = <<>>
          /\ \/ rangeIdx' = rangeIdx + 1 /\ patIdx' = patIdx
             \/ rangeIdx' = 1 /\ patIdx' = patIdx + 1]_vars

\* the call at the second offset of a query failed after a first page that
\* gave accounts, and it is not the last query of the run
C14_Witness ==
  /\ pc = "iter_delay"
  /\ searchOk = <<TRUE, FALSE>>
  /\ searchOffsets = <<0, limit>>
  /\ validBotsCount > 0 \/ validBots # <<>>
  /\ ~LastPair

\* C15: between two search calls of a run that follow one another a delay
\* elapses: after a page that is followed by another page of the same
\* query, and after every (basePattern, numberRange) before the first call
\* of the next one, also when its only page was empty or had failed.
C15_DelayBetweenSearches ==
  /\ []((pc = "search" /\ nSearch > 0) => delayed)
  /\ [][(nSearch' # nSearch /\ nSearch > 0) => delayed]_vars
  /\ [][nSearch' # nSearch => ~delayed']_vars

\* the first call of the second query is about to be issued, after a first
\* query whose only call had failed
C15_Witness ==
  /\ pc = "search"
  /\ rangeIdx = 2
  /\ nSearch = 1
  /\ allSearchFailed
  /\ delayed

\* a create-sheet call is issued in this step
CreateIssued ==
  /\ Len(reqCalls') = Len(reqCalls) + 1
  /\ reqCalls'[Len(reqCalls')].op = "create"

OfValidatedCandidate(row) ==
  \E c \in returned :
    /\ row = <<c.player_id, c.nickname>>
    /\ isValidBotNickname(c.nickname, c.pattern)
    /\ OfBotFormat(c.nickname, c.pattern)

\* C17: every data row appended to a sheet is [accountId, nickname] of a
\* candidate the search service returned in this run whose nickname
\* satisfies isValidBotNickname for the base pattern of its query, whatever
\* the numberRange of the query; once initializeSpreadsheet has returned the
\* base sheet holds nothing but the header and such rows.
C17_OnlyValidatedPersisted ==
  /\ \A i \in 1..Len(appended) : OfValidatedCandidate(appended[i])
  /\ \A i \in 1..Len(reqRows) : OfValidatedCandidate(reqRows[i])
  /\ (initialized >= 1 /\ pc \notin InitPcs) =>
       \A i \in 1..Len(sheets[BaseSheet]) :
         \/ sheets[BaseSheet][i] = HEADER
         \/ OfValidatedCandidate(sheets[BaseSheet][i])

\* a row with the number 42 has been appended in the query of the numeric
\* range "1-20", after a page that also held a nickname not of the format
C17_Witness ==
  /\ numberRanges[rangeIdx] = <<1, "-", 20>>
  /\ nSearch = 3
  /\ Len(appended) = 1
  /\ appended[1][2] = basePattern \o <<"_", "4", "2">>
  /\ \E c \in returned : ~isValidBotNickname(c.nickname, c.pattern)
  /\ Len(sheets[BaseSheet]) = 2

\* the accountId has a row among the first n rows appended
HasRowWithin(id, n) == \E i \in 1..n : appended[i][1] = id

\* the place of the first row of the accountId among the rows appended
FirstRow(id) ==
  CHOOSE i \in 1..Len(appended) :
    /\ appended[i][1] = id
    /\ ~HasRowWithin(id, i - 1)

\* the data rows of the sheets of index k and above, the header left out
RECURSIVE DataRowsFrom(_)
DataRowsFrom(k) ==
  IF k > sheetIndex THEN <<>>
  ELSE (IF TitleOf(k) \in DOMAIN sheets /\ sheets[TitleOf(k)] # <<>>
        THEN Tail(sheets[TitleOf(k)]) ELSE <<>>) \o DataRowsFrom(k + 1)

\* C18: rows are appended in the order of discovery: of two accounts, the
\* one discovered first has its row appended first, so that it stands above
\* the other on the same sheet or on an earlier overflow sheet; in the
\* immediate variant and, after de-duplication and batching, in the
\* buffered one.
C18_DiscoveryOrder ==
  /\ \A i, j \in 1..Len(firstSeen) :
       (i < j /\ HasRowWithin(firstSeen[j].userId, Len(appended))) =>
         /\ HasRowWithin(firstSeen[i].userId, Len(appended))
         /\ FirstRow(firstSeen[i].userId) < FirstRow(firstSeen[j].userId)
  /\ (/\ initialized >= 1
      /\ pc \notin InitPcs \cup {"save_create", "write_create"}
      /\ caught # "ERR_EXISTS") => DataRowsFrom(1) = appended

\* the buffered variant has written two accounts, the first of which had
\* been found a second time after the other one
C18_Witness ==
  /\ variant = "buffered"
  /\ Len(allValidBots) = 3
  /\ allValidBots[1].userId = allValidBots[3].userId
  /\ Len(appended) = 2
  /\ appended[1][1] = allValidBots[1].userId
  /\ appended[2][1] = allValidBots[2].userId

\* accounts discovered so far, and accounts with a row appended
Discovered == { firstSeen[i].userId : i \in 1..Len(firstSeen) }
Persisted == { appended[i][1] : i \in 1..Len(appended) }

\* C19: in the immediate variant, whenever a search call is about to be
\* issued every account discovered so far has a row appended, and each
\* append call carries the row of one account (an account that a page holds
\* twice gets a call for each occurrence); at any point, also after an
\* abort, the accounts discovered and not appended are among those of the
\* page being processed.
C19_ImmediateResilience ==
  variant = "immediate" =>
    /\ pc = "search" => Discovered \subseteq Persisted
    /\ Discovered \ Persisted \subseteq
         { pending[i].userId : i \in 1..Len(pending) }
    /\ Len(reqRows) <= 1
    /\ totalAccountsSaved = Len(appended)
    /\ Persisted \subseteq Discovered

\* the second page of a query is about to be fetched and the two accounts
\* of the first page have their rows
C19_Witness ==
  /\ variant = "immediate"
  /\ pc = "search"
  /\ searchOffsets = <<0>>
  /\ offset = limit
  /\ Cardinality(Discovered) = 2
  /\ Persisted = Discovered
  /\ totalAccountsSaved = 2

\* the first append of the request failed for capacity while the spreadsheet
\* already held a sheet with the next overflow name
OverflowNameTaken ==
  /\ reqCalls # <<>>
  /\ IsCapacity(reqCalls[1].answer)
  /\ <<SHEET_NAME, "_", reqIndex + 1>> \in DOMAIN reqPre

\* C20: when an append fails for capacity and a sheet with the next overflow
\* name already exists (left by an earlier run), the run does not abort on
\* the name being taken: unless a later call of the request fails for
\* another cause, the request ends with the rows at the end of an overflow
\* sheet that is the active one.
C20_RolloverOntoExistingSheet ==
  OverflowNameTaken =>
    /\ caught # "ERR_EXISTS"
    /\ (/\ pc \notin RequestPcs
        /\ \A i \in 2..Len(reqCalls) :
             reqCalls[i].answer \in {OK, "ERR_EXISTS"})
       => /\ currentSheet # reqCalls[1].sheet
          /\ currentSheet \in DOMAIN sheets
          /\ Len(sheets[currentSheet]) >= Len(reqRows)
          /\ SubSeq(sheets[currentSheet],
                    Len(sheets[currentSheet]) - Len(reqRows) + 1,
                    Len(sheets[currentSheet])) = reqRows

\* the positions at which main is suspended on an external call; at the
\* other positions it awaits a timer or has ended
CallPcs == {"auth", "search", "save_append", "write_append"}
             \cup InitPcs \cup RequestPcs

\* C21: main is one chain of awaits, so the run is at one position at a time
\* and each step issues at most one external call, from the position the
\* answer of the call before it led to: a search never shares a step with a
\* spreadsheet call, the first call is the authentication, the calls of
\* initializeSpreadsheet come only after it has succeeded, and no search
\* call and no append, create-sheet or header call of the writer is issued
\* before initializeSpreadsheet has returned.
C21_Sequential ==
  /\ [](pc = "auth" => nCalls = 0)
  /\ [][/\ nCalls' \in {nCalls, nCalls + 1}
        /\ nCalls' = nCalls + 1 => pc \in CallPcs
        /\ nSearch' # nSearch =>
             /\ nSearch' = nSearch + 1
             /\ nCalls' = nCalls + 1
             /\ pc = "search"
             /\ reqCalls' = reqCalls
        /\ (reqCalls' # reqCalls /\ reqCalls' # <<>>) =>
             /\ nCalls' = nCalls + 1
             /\ \/ Len(reqCalls') = 1
                \/ /\ Len(reqCalls') = Len(reqCalls) + 1
                   /\ SubSeq(reqCalls', 1, Len(reqCalls)) = reqCalls
        /\ (nCalls' = nCalls + 1 /\ pc \in InitPcs) =>
             /\ nCalls >= 1
             /\ caught = NoError
        /\ (nCalls' = nCalls + 1 /\ pc \notin {"auth"} \cup InitPcs) =>
             initialized >= 1
        /\ initialized' # initialized =>
             /\ pc = "init_header"
             /\ initialized = 0
             /\ initialized' = 1
       ]_vars

\* six calls have been issued one after the other: the authentication, the
\* get, the clear and the header write of the initialization, one search
\* and one append
C21_Witness ==
  /\ nCalls = 6
  /\ nSearch = 1
  /\ initialized = 1
  /\ Len(reqCalls) = 1
  /\ reqCalls[1].answer = OK
  /\ Len(appended) = 1

\* accounts of the candidates returned in successfully fetched pages whose
\* nickname is valid for the base pattern of the query that returned them
ValidatedAccounts ==
  { c.player_id : c \in { d \in returned :
                            isValidBotNickname(d.nickname, d.pattern) } }

\* C22: when the run has ended with no error caught by main, the accounts
\* with a row appended are the accounts of the candidates that were returned
\* in successfully fetched pages and are valid for the base pattern of their
\* query: none is lost to the de-duplication, to the marking of ids as seen
\* or to a rollover.
C22_Completeness ==
  (pc = "exited" /\ caught = NoError) => Persisted = ValidatedAccounts

\* a run has ended without error after a rollover, and more candidates were
\* returned than accounts have a row: one was returned more than once or was
\* turned down by the validator
C22_Witness ==
  /\ pc = "exited"
  /\ caught = NoError
  /\ sheetIndex = 2
  /\ Persisted = ValidatedAccounts
  /\ Cardinality(returned) > Cardinality(Persisted)
  /\ Persisted # {}

\* the rows writeUsersToSheet is given: those of the de-duplicated accounts
InputRows ==
  LET users == UniqueBots(allValidBots)
  IN  [i \in 1..Len(users) |-> Row(users[i])]

\* the sequences of a sequence, one after the other
RECURSIVE Concat(_)
Concat(seqs) ==
  IF seqs = <<>> THEN <<>> ELSE Head(seqs) \o Concat(Tail(seqs))

WritePcs == {"write_append", "write_create", "write_header", "write_retry",
             "batch_delay"}

\* batches whose append has succeeded
BatchesDone == IF pc = "batch_delay" THEN batchIdx ELSE batchIdx - 1

\* C23: writeUsersToSheet cuts its input into consecutive batches of
\* BATCH_SIZE rows, the last one of BATCH_SIZE rows or fewer, and appends
\* them one by one in that order; when it has returned with no error, the
\* rows appended, and the data rows of the base sheet and the overflow
\* sheets read in the order of the sheets, are the input: every row once, in
\* the order of the input. The sheet index never goes down, and an append
\* that succeeds changes the active sheet and no other.
C23_BatchedWrite ==
  /\ []((variant = "buffered" /\ pc \in WritePcs) =>
          /\ Concat(batches) = InputRows
          /\ \A k \in 1..Len(batches) :
               /\ Len(batches[k]) \in 1..BATCH_SIZE
               /\ k < Len(batches) => Len(batches[k]) = BATCH_SIZE
          /\ batchIdx \in 1..Len(batches)
          /\ appended = Concat(SubSeq(batches, 1, BatchesDone))
          /\ totalProcessed = Len(appended))
  /\ []((variant = "buffered" /\ pc = "exited" /\ caught = NoError) =>
          /\ appended = InputRows
          /\ DataRowsFrom(1) = InputRows)
  /\ [][variant = "buffered" =>
          /\ sheetIndex' >= sheetIndex
          /\ appended' # appended =>
               /\ currentSheet' = TitleOf(sheetIndex')
               /\ currentSheet' \in DOMAIN sheets
               /\ appended' = appended \o batches[batchIdx]
               /\ sheets' = [sheets EXCEPT ![currentSheet'] =
                               @ \o batches[batchIdx]]
       ]_vars

\* two batches have been written and writeUsersToSheet has returned: the
\* first batch rolled over, and the second one followed it onto the overflow
\* sheet
C23_Witness ==
  /\ variant = "buffered"
  /\ pc = "exited"
  /\ caught = NoError
  /\ Len(batches) = 2
  /\ sheetIndex = 2
  /\ sheets[BaseSheet] = <<HEADER>>
  /\ sheets[TitleOf(2)] = <<HEADER>> \o InputRows

============================================================================
